---- MODULE Spec2Model ----
(***************************************************************************)
(* Model of import_players.py: the batch job that fetches the player list  *)
(* of one league and season from Understat and upserts it into the         *)
(* PostgreSQL table "players" with one multi-row                           *)
(* INSERT ... ON CONFLICT (name) DO UPDATE statement (Spec), and of the    *)
(* Flask applications that read the table: app/main.py with the routes of  *)
(* app/routes/players.py, and app.py (SpecApi).                            *)
(*                                                                         *)
(* Python values are tagged records, so that None, strings and numbers can *)
(* be compared: None is [t |-> "none"], a string is [t |-> "str", s |-> a  *)
(* sequence of one-character strings], a number is [t |-> "int", n |-> n]. *)
(***************************************************************************)
EXTENDS Integers, Sequences, FiniteSets, TLC

\* ---------------------------------------------------------------- bounds

\* Longest collection the upstream call returns in the model.
MaxBatch == 2

\* Number of invocations of the script that follow each other.
MaxRuns == 2

\* ---------------------------------------------------------------- values

None == [t |-> "none"]

Str(s) == [t |-> "str", s |-> s]

Num(n) == [t |-> "int", n |-> n]

\* Python truthiness of a value: None, "" and 0 are false.
Truthy(v) ==
    CASE v.t = "none" -> FALSE
      [] v.t = "str"  -> v.s # << >>
      [] v.t = "int"  -> v.n # 0

DigitChars == <<"0", "1", "2", "3", "4", "5", "6", "7", "8", "9">>

IsDigit(c) == \E d \in 1..10 : DigitChars[d] = c

DigitVal(c) == (CHOOSE d \in 1..10 : DigitChars[d] = c) - 1

IsSpace(c) == c \in {" ", "\t", "\n"}

RECURSIVE LStrip(_)
LStrip(s) == IF s # << >> /\ IsSpace(Head(s)) THEN LStrip(Tail(s)) ELSE s

RECURSIVE RStrip(_)
RStrip(s) ==
    IF s # << >> /\ IsSpace(s[Len(s)]) THEN RStrip(SubSeq(s, 1, Len(s) - 1)) ELSE s

Strip(s) == RStrip(LStrip(s))

\* The text after an optional sign.
Unsigned(s) == IF s # << >> /\ Head(s) \in {"+", "-"} THEN Tail(s) ELSE s

\* Decimal digits, with single underscores allowed between two digits.
ValidDigits(s) ==
    /\ s # << >>
    /\ \A k \in 1..Len(s) :
          \/ IsDigit(s[k])
          \/ /\ s[k] = "_"
             /\ 1 < k
             /\ k < Len(s)
             /\ IsDigit(s[k - 1])
             /\ IsDigit(s[k + 1])

RECURSIVE DigitsValue(_, _)
DigitsValue(s, acc) ==
    IF s = << >> THEN acc
    ELSE IF Head(s) = "_" THEN DigitsValue(Tail(s), acc)
    ELSE DigitsValue(Tail(s), acc * 10 + DigitVal(Head(s)))

\* int(text) succeeds: surrounding whitespace, an optional sign, digits.
IntParses(s) == ValidDigits(Unsigned(Strip(s)))

\* int(text) when it succeeds.
IntOfText(s) ==
    LET body == Strip(s)
        mag  == DigitsValue(Unsigned(body), 0)
    IN  IF Head(body) = "-" THEN 0 - mag ELSE mag

RECURSIVE NatText(_)
NatText(n) ==
    IF n < 10 THEN <<DigitChars[n + 1]>>
    ELSE NatText(n \div 10) \o <<DigitChars[(n % 10) + 1]>>

\* str(n) of an integer.
TextOfInt(n) == IF n < 0 THEN <<"-">> \o NatText(0 - n) ELSE NatText(n)

\* Variant: a failed conversion is marked with -1 instead of 0.
to_int_minus_one(val) ==
    CASE val.t = "none" -> -1
      [] val.t = "int"  -> val.n
      [] val.t = "str"  -> IF IntParses(val.s) THEN IntOfText(val.s) ELSE -1

\* to_int(val): int(val), or 0 when int raises TypeError or ValueError.
to_int(val) ==
    CASE val.t = "none" -> 0
      [] val.t = "int"  -> val.n
      [] val.t = "str"  -> IF IntParses(val.s) THEN IntOfText(val.s) ELSE 0

\* ---------------------------------------------------------------- inputs

\* One upstream record as p.get(key) sees it: an absent key reads as None.
\* Understat delivers the numeric fields as texts; a JSON number is an
\* integer here (int() of a float infinity raises OverflowError, which
\* to_int does not catch, and is not among the inputs).
Raw(name, team, age, position, goals, assists, nationality) ==
    [player_name |-> name, team_title |-> team, age |-> age,
     position |-> position, goals |-> goals, assists |-> assists,
     nationality |-> nationality]

NameA == Str(<<"A">>)

NameB == Str(<<"B">>)

TeamX == Str(<<"X">>)

TeamY == Str(<<"Y">>)

RecA == Raw(NameA, TeamX, None, Str(<<"F">>), Str(<<"3">>), Str(<<"1">>), None)

RecA2 == Raw(NameA, TeamY, Str(<<"3", "0">>), None, Str(<<" ", "+", "5">>), None, Str(<<"E">>))

RecB == Raw(NameB, TeamY, None, Str(<<"M">>), Str(<<"b", "a", "d">>), Str(<<"-", "2">>), None)

RecNoName == Raw(None, TeamX, None, Str(<<"F">>), Str(<<"3">>), Str(<<"1">>), None)

RecEmptyName == Raw(Str(<< >>), TeamY, None, None, Num(4), None, None)

RecNoTeam == Raw(NameB, None, None, Str(<<"M">>), Str(<<"3">>), None, None)

RecEmptyTeam == Raw(NameA, Str(<< >>), None, None, Str(<<"5">>), None, None)

RawRecords == {RecA, RecA2, RecB, RecNoName, RecEmptyName, RecNoTeam, RecEmptyTeam}

SeqsUpTo(S, n) == UNION {[1..k -> S] : k \in 0..n}

List(v) == [t |-> "list", v |-> v]

\* What understat.get_league_players can hand back: nothing, or a list.
Collections == {None} \cup {List(v) : v \in SeqsUpTo(RawRecords, MaxBatch)}

\* `not data` in Python: None and the empty list are false.
Empty(d) == d.t = "none" \/ (d.t = "list" /\ d.v = << >>)

\* Values of the SEASON environment variable an operator may set.
SeasonTexts == {<<"7">>, <<" ", "0", "7">>, <<"a", "b", "c">>, << >>}

\* ---------------------------------------------------------------- state

VARIABLES
    pc,             \* position of the script
    run,            \* number of this invocation
    DB_URL,         \* os.getenv result: TRUE when a string, FALSE when None
    SEASON,         \* the SEASON text
    players,        \* committed rows of table players
    id_seq,         \* last value handed out by the id sequence
    clock,          \* the store's now()
    data,           \* result of get_league_players
    idx,            \* position of the for loop in data
    rows,           \* normalized rows
    skipped,        \* "Skipping invalid entry" warnings logged
    conn,           \* the open transaction, or closed
    outcome,        \* the last line the run logged
    exit_code,      \* process exit status once the script ended
    fetch_calls,    \* upstream calls issued by this invocation
    error,          \* the exception that ended the run, if one did
    store_calls,    \* connections to the store opened by this invocation
    before,         \* table players when this invocation started
    prev,           \* rows the invocation before this one committed
    request,        \* the request the read API answered last
    response,       \* its response
    txns,           \* the transactions of overlapping invocations
    observed        \* rows the last SELECT of a reader returned

vars == <<pc, run, DB_URL, SEASON, players, id_seq, clock, data, idx, rows,
          skipped, conn, outcome, exit_code, error, fetch_calls, store_calls,
          before, prev, request, response, txns, observed>>

Closed == [open |-> FALSE]

\* No request has been answered.
NoRequest == [endpoint |-> "none"]

NoResponse == [status |-> 0]

\* No SELECT has been answered.
NoRead == [rows |-> {}, passed |-> {}]

\* data before the assignment in fetch_and_store.
Unset == [t |-> "unset"]


\* State of a fresh process.
Fresh(url, season) ==
    /\ pc' = "load"
    /\ DB_URL' = url
    /\ SEASON' = season
    /\ data' = Unset
    /\ idx' = 0
    /\ rows' = << >>
    /\ skipped' = 0
    /\ conn' = Closed
    /\ outcome' = "none"
    /\ exit_code' = -1
    /\ error' = "none"
    /\ fetch_calls' = 0
    /\ store_calls' = 0

Init ==
    /\ pc = "load"
    /\ run = 1
    /\ DB_URL \in BOOLEAN
    /\ SEASON \in SeasonTexts
    /\ players = {}
    /\ id_seq = 0
    /\ clock = 0
    /\ data = Unset
    /\ idx = 0
    /\ rows = << >>
    /\ skipped = 0
    /\ conn = Closed
    /\ outcome = "none"
    /\ exit_code = -1
    /\ error = "none"
    /\ fetch_calls = 0
    /\ store_calls = 0
    /\ request = NoRequest
    /\ response = NoResponse
    /\ before = {}
    /\ prev = << >>
    /\ txns = << >>
    /\ observed = NoRead

\* The process ends: with status 1 after sys.exit(1) or an uncaught
\* exception, with status 0 when fetch_and_store returns.
Ends(line, status, exception) ==
    /\ pc' = "done"
    /\ outcome' = line
    /\ exit_code' = status
    /\ error' = exception

\* ---------------------------------------------------------------- module level

\* Variant: the error is logged but sys.exit(1) is missing.
ValidateSeasonNoExit ==
    /\ pc = "load"
    /\ SEASON' = IF IntParses(SEASON) THEN TextOfInt(IntOfText(SEASON)) ELSE SEASON
    /\ pc' = "create_engine"
    /\ UNCHANGED <<run, DB_URL, players, id_seq, clock, data, idx, rows,
                   skipped, conn, outcome, exit_code, error, fetch_calls,
                   store_calls, before, prev, request, response,
                   txns, observed>>

\* SEASON = str(int(SEASON)), or log the error and sys.exit(1).
ValidateSeason ==
    /\ pc = "load"
    /\ IF IntParses(SEASON)
       THEN /\ SEASON' = TextOfInt(IntOfText(SEASON))
            /\ pc' = "create_engine"
            /\ UNCHANGED <<outcome, exit_code, error>>
       ELSE /\ Ends("invalid_season", 1, "ValueError")
            /\ UNCHANGED SEASON
    /\ UNCHANGED <<run, DB_URL, players, id_seq, clock, data, idx, rows,
                   skipped, conn, fetch_calls, store_calls, before, prev, request, response,
                   txns, observed>>

\* engine = create_engine(DB_URL): raises ArgumentError on None.
CreateEngine ==
    /\ pc = "create_engine"
    /\ IF DB_URL
       THEN /\ pc' = "create_all"
            /\ UNCHANGED <<outcome, exit_code, error>>
       ELSE Ends("uncaught", 1, "ArgumentError")
    /\ UNCHANGED <<run, DB_URL, SEASON, players, id_seq, clock, data, idx,
                   rows, skipped, conn, fetch_calls, store_calls, before, prev, request, response,
                   txns, observed>>

\* metadata.create_all(engine): connects; CREATE TABLE IF NOT EXISTS keeps
\* the rows of an existing table.
CreateAll ==
    /\ pc = "create_all"
    /\ store_calls' = store_calls + 1
    /\ pc' = "fetch"
    /\ UNCHANGED <<run, DB_URL, SEASON, players, id_seq, clock, data, idx,
                   rows, skipped, conn, outcome, exit_code, error, fetch_calls, before, prev, request, response,
                   txns, observed>>

\* metadata.create_all(engine) with the store unreachable: OperationalError,
\* not caught at module level.
CreateAllFails ==
    /\ pc = "create_all"
    /\ store_calls' = store_calls + 1
    /\ Ends("uncaught", 1, "OperationalError")
    /\ UNCHANGED <<run, DB_URL, SEASON, players, id_seq, clock, data, idx,
                   rows, skipped, conn, fetch_calls, before, prev, request, response,
                   txns, observed>>

\* ---------------------------------------------------------------- fetch_and_store

\* data = await understat.get_league_players(LEAGUE, SEASON) returns.
FetchReturns ==
    /\ pc = "fetch"
    /\ fetch_calls' = fetch_calls + 1
    /\ \E d \in Collections : data' = d
    /\ pc' = "check_data"
    /\ UNCHANGED <<run, DB_URL, SEASON, players, id_seq, clock, idx, rows,
                   skipped, conn, outcome, exit_code, error, store_calls, before, prev, request, response,
                   txns, observed>>

\* Variant: a failed upstream call is issued once more.
FetchClientErrorRetries ==
    /\ pc = "fetch"
    /\ fetch_calls < 2
    /\ fetch_calls' = fetch_calls + 1
    /\ UNCHANGED <<pc, run, DB_URL, SEASON, players, id_seq, clock, data, idx,
                   rows, skipped, conn, outcome, exit_code, error, store_calls,
                   before, prev, request, response,
                   txns, observed>>

\* The upstream call raises aiohttp.ClientError: logged, the function returns.
FetchClientError ==
    /\ pc = "fetch"
    /\ fetch_calls' = fetch_calls + 1
    /\ Ends("http_error", 0, "ClientError")
    /\ UNCHANGED <<run, DB_URL, SEASON, players, id_seq, clock, data, idx,
                   rows, skipped, conn, store_calls, before, prev, request, response,
                   txns, observed>>

\* The upstream call raises anything else (a timeout, a response the client
\* library cannot decode): caught by `except Exception`.
FetchOtherError ==
    /\ pc = "fetch"
    /\ fetch_calls' = fetch_calls + 1
    /\ Ends("unexpected_error", 0, "Exception")
    /\ UNCHANGED <<run, DB_URL, SEASON, players, id_seq, clock, data, idx,
                   rows, skipped, conn, store_calls, before, prev, request, response,
                   txns, observed>>

\* Variant: `if data is None` in place of `if not data`.
CheckDataNoneOnly ==
    /\ pc = "check_data"
    /\ IF data.t = "none"
       THEN /\ Ends("no_data", 0, "none")
            /\ UNCHANGED idx
       ELSE /\ pc' = "normalize"
            /\ idx' = 1
            /\ UNCHANGED <<outcome, exit_code, error>>
    /\ UNCHANGED <<run, DB_URL, SEASON, players, id_seq, clock, data, rows,
                   skipped, conn, fetch_calls, store_calls, before, prev, request, response,
                   txns, observed>>

\* if not data: warn and return.
CheckData ==
    /\ pc = "check_data"
    /\ IF Empty(data)
       THEN /\ Ends("no_data", 0, "none")
            /\ UNCHANGED idx
       ELSE /\ pc' = "normalize"
            /\ idx' = 1
            /\ UNCHANGED <<outcome, exit_code, error>>
    /\ UNCHANGED <<run, DB_URL, SEASON, players, id_seq, clock, data, rows,
                   skipped, conn, fetch_calls, store_calls, before, prev, request, response,
                   txns, observed>>

\* Variant: only the name is required.
MalformedNameOnly(p) == ~Truthy(p.player_name)

\* Variant: a record with a numeric text that int() refuses is skipped too.
MalformedStrict(p) ==
    \/ ~Truthy(p.player_name)
    \/ ~Truthy(p.team_title)
    \/ \E f \in {"age", "goals", "assists"} :
          p[f].t = "str" /\ ~IntParses(p[f].s)

\* if not name or not team
Malformed(p) == ~Truthy(p.player_name) \/ ~Truthy(p.team_title)

\* The dict appended to rows for one upstream record.
Normalized(p) ==
    [name        |-> p.player_name,
     age         |-> to_int(p.age),
     position    |-> p.position,
     team        |-> p.team_title,
     goals       |-> to_int(p.goals),
     assists     |-> to_int(p.assists),
     nationality |-> p.nationality]

\* Variant: every valid record is upserted as soon as it is normalized.
NormalizeRecordUpsertsEach ==
    /\ pc = "normalize"
    /\ idx <= Len(data.v)
    /\ LET p == data.v[idx]
       IN  IF Malformed(p)
           THEN /\ skipped' = skipped + 1
                /\ UNCHANGED <<rows, pc>>
           ELSE /\ rows' = Append(rows, Normalized(p))
                /\ pc' = "begin"
                /\ UNCHANGED skipped
    /\ idx' = idx + 1
    /\ UNCHANGED <<run, DB_URL, SEASON, players, id_seq, clock, data,
                   conn, outcome, exit_code, error, fetch_calls, store_calls,
                   before, prev, request, response,
                   txns, observed>>

\* One iteration of `for p in data`.
NormalizeRecord ==
    /\ pc = "normalize"
    /\ idx <= Len(data.v)
    /\ LET p == data.v[idx]
       IN  IF Malformed(p)
           THEN /\ skipped' = skipped + 1
                /\ UNCHANGED rows
           ELSE /\ rows' = Append(rows, Normalized(p))
                /\ UNCHANGED skipped
    /\ idx' = idx + 1
    /\ UNCHANGED <<pc, run, DB_URL, SEASON, players, id_seq, clock, data,
                   conn, outcome, exit_code, error, fetch_calls, store_calls, before, prev, request, response,
                   txns, observed>>

\* Variant: the `if not rows` check is missing.
CheckRowsAlwaysUpserts ==
    /\ pc = "normalize"
    /\ idx > Len(data.v)
    /\ pc' = "begin"
    /\ UNCHANGED <<run, DB_URL, SEASON, players, id_seq, clock, data, idx,
                   rows, skipped, conn, outcome, exit_code, error, fetch_calls,
                   store_calls, before, prev, request, response,
                   txns, observed>>

\* The loop is over; if not rows: warn and return.
CheckRows ==
    /\ pc = "normalize"
    /\ idx > Len(data.v)
    /\ IF rows = << >>
       THEN Ends("no_valid_rows", 0, "none")
       ELSE /\ pc' = "begin"
            /\ UNCHANGED <<outcome, exit_code, error>>
    /\ UNCHANGED <<run, DB_URL, SEASON, players, id_seq, clock, data, idx,
                   rows, skipped, conn, fetch_calls, store_calls, before, prev, request, response,
                   txns, observed>>

\* ---------------------------------------------------------------- the upsert

\* The row a proposed row creates when no stored row has its name.
Inserted(r, id, now) ==
    [id |-> id, name |-> r.name, age |-> r.age, position |-> r.position,
     team |-> r.team, goals |-> r.goals, assists |-> r.assists,
     nationality |-> r.nationality, last_updated |-> now]

\* Variant: the update resets last_updated instead of setting it to now().
UpdatedResetsStamp(s, r, now) ==
    [s EXCEPT !.name = r.name, !.age = r.age, !.position = r.position,
              !.team = r.team, !.goals = r.goals, !.assists = r.assists,
              !.nationality = r.nationality, !.last_updated = 0]

\* Variant: the update keeps a stored value where the proposed row has
\* none (COALESCE(excluded.column, players.column)).
UpdatedKeepsStored(s, r, now) ==
    [s EXCEPT !.name = r.name, !.age = r.age,
              !.position = IF r.position = None THEN s.position ELSE r.position,
              !.team = r.team, !.goals = r.goals, !.assists = r.assists,
              !.nationality = IF r.nationality = None THEN s.nationality
                              ELSE r.nationality,
              !.last_updated = now]

\* The stored row after DO UPDATE with the proposed row.
Updated(s, r, now) ==
    [s EXCEPT !.name = r.name, !.age = r.age, !.position = r.position,
              !.team = r.team, !.goals = r.goals, !.assists = r.assists,
              !.nationality = r.nationality, !.last_updated = now]

\* Variant: the update leaves last_updated to the column default, which
\* applies to inserts only.
UpsertRowKeepsStamp(view, r, id, now) ==
    IF \E s \in view : s.name = r.name
    THEN {IF s.name = r.name THEN Updated(s, r, s.last_updated) ELSE s : s \in view}
    ELSE view \cup {Inserted(r, id, now)}

\* Variant: a plain INSERT without the ON CONFLICT clause.
UpsertRowAlwaysInserts(view, r, id, now) == view \cup {Inserted(r, id, now)}

\* Variant: the update adds the incoming counters to the stored ones.
UpsertRowAddsGoals(view, r, id, now) ==
    IF \E s \in view : s.name = r.name
    THEN {IF s.name = r.name
          THEN [Updated(s, r, now) EXCEPT !.goals = s.goals + r.goals]
          ELSE s : s \in view}
    ELSE view \cup {Inserted(r, id, now)}

\* Variant: the DO UPDATE touches last_updated of every stored row.
UpsertRowStampsAll(view, r, id, now) ==
    IF \E s \in view : s.name = r.name
    THEN {IF s.name = r.name
          THEN Updated(s, r, now)
          ELSE [s EXCEPT !.last_updated = now] : s \in view}
    ELSE view \cup {Inserted(r, id, now)}

\* INSERT one proposed row ON CONFLICT (name) DO UPDATE SET every column but
\* id and last_updated = excluded.column, last_updated = now().
UpsertRow(view, r, id, now) ==
    IF \E s \in view : s.name = r.name
    THEN {IF s.name = r.name THEN Updated(s, r, now) ELSE s : s \in view}
    ELSE view \cup {Inserted(r, id, now)}

\* Variant: every row is committed as it is written (autocommit), so a
\* failure leaves the rows written so far.
RolledBackKeepsWritten(committed, view) == view

\* What a transaction that ends in an exception leaves in the table.
RolledBack(committed, view) == committed

\* with engine.begin() as conn: a connection and a transaction are opened;
\* now() is the start time of the transaction, later than that of every
\* transaction of an earlier invocation.
BeginTxn ==
    /\ pc = "begin"
    /\ store_calls' = store_calls + 1
    /\ clock' = clock + 1
    /\ conn' = [open |-> TRUE, view |-> players, k |-> 1,
                touched |-> {}, now |-> clock']
    /\ pc' = "execute"
    /\ UNCHANGED <<run, DB_URL, SEASON, players, id_seq, data, idx, rows,
                   skipped, outcome, exit_code, error, fetch_calls, before, prev, request, response,
                   txns, observed>>

\* engine.begin() with the store unreachable: OperationalError, caught by
\* `except sa_exc.SQLAlchemyError`.
BeginFails ==
    /\ pc = "begin"
    /\ store_calls' = store_calls + 1
    /\ Ends("database_error", 0, "OperationalError")
    /\ UNCHANGED <<run, DB_URL, SEASON, players, id_seq, clock, data, idx,
                   rows, skipped, conn, fetch_calls, before, prev, request, response,
                   txns, observed>>

\* conn.execute(upsert_stmt), one proposed row of the VALUES list: the id
\* default takes the next sequence value; a row whose name the same
\* statement already inserted or updated makes the statement fail ("ON
\* CONFLICT DO UPDATE command cannot affect row a second time").
ExecuteRow ==
    /\ pc = "execute"
    /\ conn.k <= Len(rows)
    /\ id_seq' = id_seq + 1
    /\ LET r == rows[conn.k]
       IN  IF r.name \in conn.touched
           THEN /\ players' = RolledBack(players, conn.view)
                /\ conn' = Closed
                /\ Ends("database_error", 0, "CardinalityViolation")
           ELSE /\ conn' = [conn EXCEPT
                              !.view = UpsertRow(conn.view, r, id_seq', conn.now),
                              !.k = conn.k + 1,
                              !.touched = conn.touched \cup {r.name}]
                /\ UNCHANGED <<pc, players, outcome, exit_code, error>>
    /\ UNCHANGED <<run, DB_URL, SEASON, clock, data, idx, rows, skipped,
                   fetch_calls, store_calls, before, prev, request, response,
                   txns, observed>>

\* Variant: the exception of the statement is not caught.
ExecuteFailsUncaught ==
    /\ pc = "execute"
    /\ players' = RolledBack(players, conn.view)
    /\ conn' = Closed
    /\ Ends("uncaught", 1, "OperationalError")
    /\ UNCHANGED <<run, DB_URL, SEASON, id_seq, clock, data, idx, rows,
                   skipped, fetch_calls, store_calls, before, prev, request, response,
                   txns, observed>>

\* The store becomes unreachable, or rejects a value, while the statement
\* runs or at commit: the context manager rolls the transaction back.
ExecuteFails ==
    /\ pc = "execute"
    /\ players' = RolledBack(players, conn.view)
    /\ conn' = Closed
    /\ Ends("database_error", 0, "OperationalError")
    /\ UNCHANGED <<run, DB_URL, SEASON, id_seq, clock, data, idx, rows,
                   skipped, fetch_calls, store_calls, before, prev, request, response,
                   txns, observed>>

\* Variant: the success line counts the fetched records.
SuccessLineCountsFetched == [imported |-> Len(data.v)]

\* logger.info(f"Successfully imported/updated {len(rows)} players."): the
\* totals the line names, with their values.
SuccessLine == [imported |-> Len(rows)]

\* Leaving the with block commits; the success line is logged.
Commit ==
    /\ pc = "execute"
    /\ conn.k > Len(rows)
    /\ players' = conn.view
    /\ conn' = Closed
    /\ Ends("imported", 0, "none")
    /\ UNCHANGED <<run, DB_URL, SEASON, id_seq, clock, data, idx, rows,
                   skipped, fetch_calls, store_calls, before, prev, request, response,
                   txns, observed>>

\* The external scheduler invokes the script again.
NextInvocation ==
    /\ pc = "done"
    /\ run < MaxRuns
    /\ run' = run + 1
    /\ \E url \in BOOLEAN, season \in SeasonTexts : Fresh(url, season)
    /\ before' = players
    /\ prev' = IF outcome = "imported" THEN rows ELSE << >>
    /\ UNCHANGED <<players, id_seq, clock, request, response,
                   txns, observed>>

Next ==
    \/ ValidateSeason
    \/ CreateEngine
    \/ CreateAll
    \/ CreateAllFails
    \/ FetchReturns
    \/ FetchClientError
    \/ FetchOtherError
    \/ CheckData
    \/ NormalizeRecord
    \/ CheckRows
    \/ BeginTxn
    \/ BeginFails
    \/ ExecuteRow
    \/ ExecuteFails
    \/ Commit
    \/ NextInvocation

Spec == Init /\ [][Next]_vars

\* The scheduler of the process lets a script that can take a step take it:
\* the upstream call and the store return or fail.
FairSpec == Spec /\ WF_vars(Next)

\* ---------------------------------------------------------------- read API
\*
\* The Flask applications that read table players: app/main.py with the
\* blueprint of app/routes/players.py under /api/players, and app.py with
\* its one route /players. Each maps its own columns of the table.

\* Rows of the largest table the read API is asked about.
MaxRows == 4

\* Pagination bounds of app.py.
DEFAULT_PAGE == 1

DEFAULT_PER_PAGE == 10

MAX_PER_PAGE == 100

\* A text the application produces, as one string.
Text(txt) == [t |-> "text", txt |-> txt]

\* A float: m * 10^(-e), without trailing zeros in the fraction.
Float(m, e) == [t |-> "float", m |-> m, e |-> e]

\* An exception on its way out of a call; str(e) is msg.
Raise(exc, msg) == [t |-> "raise", exc |-> exc, msg |-> msg]

IsRaise(v) == "exc" \in DOMAIN v

\* The characters of a string value as one string.
RECURSIVE Chars(_)
Chars(s) == IF s = << >> THEN "" ELSE Head(s) \o Chars(Tail(s))

UpperChars == <<"A", "B", "C", "D", "E", "F", "G", "K", "M", "P", "S", "X", "Y", "Z">>

LowerChars == <<"a", "b", "c", "d", "e", "f", "g", "k", "m", "p", "s", "x", "y", "z">>

\* Case folding of one character, as ILIKE compares.
lower(c) ==
    IF \E k \in 1..Len(UpperChars) : UpperChars[k] = c
    THEN LowerChars[CHOOSE k \in 1..Len(UpperChars) : UpperChars[k] = c]
    ELSE c

\* text LIKE pattern, case-insensitively: % matches any run of characters,
\* _ any one character, a backslash takes the next character literally.
RECURSIVE Like(_, _)
Like(pat, s) ==
    IF pat = << >> THEN s = << >>
    ELSE IF Head(pat) = "%"
         THEN Like(Tail(pat), s) \/ (s # << >> /\ Like(pat, Tail(s)))
    ELSE IF Head(pat) = "\\" /\ Len(pat) > 1
         THEN /\ s # << >>
              /\ lower(pat[2]) = lower(Head(s))
              /\ Like(Tail(Tail(pat)), Tail(s))
    ELSE /\ s # << >>
         /\ (Head(pat) = "_" \/ lower(Head(pat)) = lower(Head(s)))
         /\ Like(Tail(pat), Tail(s))

\* column.ilike(f"%{q}%") on one column value; NULL matches nothing.
ilike(v, q) == v.t = "str" /\ Like(<<"%">> \o q \o <<"%">>, v.s)

\* str.split(): the runs of non-whitespace characters.
RECURSIVE split(_)
split(s) ==
    LET body == LStrip(s)
    IN  IF body = << >> THEN << >>
        ELSE LET n == CHOOSE k \in 1..(Len(body) + 1) :
                          /\ k = Len(body) + 1 \/ IsSpace(body[k])
                          /\ \A j \in 1..(k - 1) : ~IsSpace(body[j])
             IN  <<SubSeq(body, 1, n - 1)>> \o split(SubSeq(body, n, Len(body)))

\* position_map.get(pos)
position_map(pos) ==
    CASE pos = <<"G", "K">> -> Text("Goalkeeper")
      [] pos = <<"D">>      -> Text("Defender")
      [] pos = <<"M">>      -> Text("Midfielder")
      [] pos = <<"F">>      -> Text("Forward")
      [] pos = <<"S">>      -> Text("Substitute")
      [] OTHER              -> None

\* sep.join(parts) of a list of strings.
RECURSIVE join(_, _)
join(sep, parts) ==
    IF parts = << >> THEN ""
    ELSE IF Len(parts) = 1 THEN parts[1]
    ELSE parts[1] \o sep \o join(sep, Tail(parts))

\* Player._expand_position(position)
expand_position(position) ==
    IF ~Truthy(position) THEN Text("Unknown")
    ELSE LET positions == split(position.s)
             unknown   == {k \in 1..Len(positions) :
                              position_map(Strip(positions[k])) = None}
         IN  IF unknown # {}
             THEN LET k == CHOOSE i \in unknown : \A j \in unknown : i <= j
                  IN  Raise("ValueError",
                            "Unknown position code: " \o Chars(Strip(positions[k])))
             ELSE Text(join(" / ", [k \in 1..Len(positions) |->
                                       position_map(Strip(positions[k])).txt]))

\* float(text) succeeds: surrounding whitespace, an optional sign, digits
\* with at most one point. (Exponents, inf and nan are not among the
\* stored texts.)
FloatParses(s) ==
    LET u == Unsigned(Strip(s))
    IN  /\ \E k \in 1..Len(u) : IsDigit(u[k])
        /\ \A k \in 1..Len(u) : IsDigit(u[k]) \/ u[k] = "."
        /\ Cardinality({k \in 1..Len(u) : u[k] = "."}) <= 1

RECURSIVE Normal(_, _)
Normal(m, e) == IF e > 0 /\ m % 10 = 0 THEN Normal(m \div 10, e - 1) ELSE Float(m, e)

\* float(text) when it succeeds.
FloatOfText(s) ==
    LET body  == Strip(s)
        u     == Unsigned(body)
        dot   == IF \E k \in 1..Len(u) : u[k] = "."
                 THEN CHOOSE k \in 1..Len(u) : u[k] = "."
                 ELSE Len(u) + 1
        whole == SubSeq(u, 1, dot - 1)
        frac  == SubSeq(u, dot + 1, Len(u))
        m     == DigitsValue(whole \o frac, 0)
    IN  Normal(IF Head(body) = "-" THEN 0 - m ELSE m, Len(frac))

\* float(self.xg) if self.xg else 0.0
expected(v) ==
    IF ~Truthy(v) THEN Float(0, 0)
    ELSE IF FloatParses(v.s) THEN FloatOfText(v.s)
    ELSE Raise("ValueError", "could not convert string to float: '" \o Chars(v.s) \o "'")

\* datetime.isoformat() of a time of the store's clock, counted in seconds.
isoformat(ts) ==
    Text("1970-01-01T00:00:" \o (IF ts < 10 THEN "0" ELSE "") \o Chars(NatText(ts)))

\* Player.to_dict() of app/models/player.py: the dict, or the exception the
\* first failing entry raises.
to_dict(p) ==
    LET Position == expand_position(p.position)
        xg       == expected(p.xg)
        xa       == expected(p.xa)
    IN  IF IsRaise(Position) THEN Position
        ELSE IF IsRaise(xg) THEN xg
        ELSE IF IsRaise(xa) THEN xa
        ELSE [ID |-> p.id, Name |-> p.name, Position |-> Position,
              Club |-> p.team, Goals |-> p.goals, Assists |-> p.assists,
              Matches |-> p.games, Minutes |-> p.minutes,
              Expected_Goals |-> xg, Expected_Assists |-> xa,
              Shots |-> p.shots, Key_Passes |-> p.key_passes,
              Yellow_Cards |-> p.yellow_cards, Red_Cards |-> p.red_cards,
              Last_Updated |-> isoformat(p.last_updated)]

\* Player.to_dict() of app.py.
app_to_dict(p) ==
    [id |-> p.id, name |-> p.name, team |-> p.team,
     nationality |-> p.nationality, position |-> p.position, age |-> p.age,
     goals |-> p.goals, assists |-> p.assists,
     last_updated |-> isoformat(p.last_updated)]

\* One row of table players with the columns either application maps.
StoredRow(id, name, position, team, nationality, xg) ==
    [id |-> id, name |-> name, position |-> position, team |-> team,
     nationality |-> nationality, age |-> 20 + id, goals |-> id,
     assists |-> 0, games |-> id, minutes |-> 0, xg |-> xg, xa |-> None,
     shots |-> 0, key_passes |-> 0, yellow_cards |-> 0, red_cards |-> 0,
     last_updated |-> id]

\* The k-th row the table may hold: positions with known codes, without a
\* position, with an unrecognised code, of whitespace only; expected goals
\* as decimal texts, absent, and not a number.
PoolRow(k) ==
    CASE k = 1 -> StoredRow(1, Str(<<"A", "b">>), Str(<<"F", " ", "M">>),
                            TeamX, Str(<<"E">>), Str(<<"0", ".", "5">>))
      [] k = 2 -> StoredRow(2, NameB, None, TeamY, None, None)
      [] k = 3 -> StoredRow(3, Str(<<"a", "X", "b">>), Str(<<"D", " ", "X">>),
                            TeamX, None, Str(<<"1", ".", "5", "0">>))
      [] k = 4 -> StoredRow(4, Str(<<"C">>), Str(<<" ", " ">>),
                            TeamY, Str(<<"E">>), Str(<<"1">>))
      [] OTHER -> StoredRow(k, Str(<<"P">> \o NatText(k)), Str(<<"G", "K">>),
                            TeamX, None, Str(<<"x">>))

\* The tables the read API is asked about.
ApiTables == SUBSET {PoolRow(k) : k \in 1..MaxRows}

\* Values of a query parameter that is read as a text.
NameQueries == {None, Str(<< >>), Str(<<"a">>), Str(<<"z">>), Str(<<"_">>)}

TeamQueries == {None, Str(<<"x">>)}

NationalityQueries == {None, Str(<<"e">>)}

\* Values of the page and per_page parameters as the client sends them.
PageTexts == {None, Str(<<"0">>), Str(<<"1">>), Str(<<"2">>), Str(<<"x">>)}

PerPageTexts ==
    {None, Str(<<"-", "1">>), Str(<<"0">>), Str(<<"1">>), Str(<<"2">>),
     Str(<<"1", "0", "0">>), Str(<<"1", "0", "0", "0">>)}

\* Values of the limit parameter as the client sends them.
LimitTexts == {None, Str(<<"0">>), Str(<<"1">>), Str(<<"2">>), Str(<<"-", "1">>), Str(<<"x">>)}

\* Last segment of a path under /api/players/.
IdSegments == {Str(NatText(k)) : k \in 0..(MaxRows + 1)} \cup {Str(<<"-", "1">>), Str(<<"0", "1">>)}

\* request.args.get(key, default, type=int): the default when the
\* parameter is absent or int() raises ValueError.
ArgInt(raw, default) ==
    IF raw.t = "str" /\ IntParses(raw.s) THEN IntOfText(raw.s) ELSE default

\* The orders in which the store may hand back the rows of a query that
\* has no ORDER BY.
RECURSIVE Orders(_)
Orders(S) ==
    IF S = {} THEN {<< >>}
    ELSE UNION {{<<x>> \o o : o \in Orders(S \ {x})} : x \in S}

\* Player.query, filtered by name when name_query is not empty.
NameFilter(table, name_query) ==
    IF Truthy(name_query) THEN {p \in table : ilike(p.name, name_query.s)} ELSE table

\* The query of app.py with its three optional filters.
AppFilter(table, name, team, nationality) ==
    {p \in table :
        /\ Truthy(name) => ilike(p.name, name.s)
        /\ Truthy(team) => ilike(p.team, team.s)
        /\ Truthy(nationality) => ilike(p.nationality, nationality.s)}

\* query.paginate(page=page, per_page=per_page, error_out=False) of
\* Flask-SQLAlchemy over the rows in the order the store hands them back:
\* a page below 1 becomes 1, a per_page below 1 becomes the default 20,
\* no maximum applies as max_per_page is not passed.
paginate(order, page, per_page) ==
    LET p     == IF page < 1 THEN 1 ELSE page
        n     == IF per_page < 1 THEN 20 ELSE per_page
        total == Len(order)
        first == (p - 1) * n + 1
        last  == IF p * n < total THEN p * n ELSE total
    IN  [items |-> IF first > last THEN << >> ELSE SubSeq(order, first, last),
         page  |-> p,
         per_page |-> n,
         total |-> total,
         pages |-> IF total = 0 THEN 0 ELSE (total + n - 1) \div n]

\* (jsonify(body), status)
Json(status, body) == [status |-> status, body |-> body]

\* {"error": msg}
ErrorBody(msg) == [error |-> Text(msg)]

\* str(e) of the exception a query raises when the store is unreachable.
StoreErrorText == "(psycopg2.OperationalError) connection refused"

\* A list comprehension whose entries are ds: the list, or the exception
\* of the first entry that raises.
FirstRaise(ds) ==
    LET failed == {k \in 1..Len(ds) : IsRaise(ds[k])}
    IN  IF failed = {} THEN List(ds)
        ELSE ds[CHOOSE i \in failed : \A j \in failed : i <= j]

\* [player.to_dict() for player in players]: the list, or the exception
\* of the first row whose to_dict raises.
ListOfDicts(items) == FirstRaise([k \in 1..Len(items) |-> to_dict(items[k])])

\* not_found of app/main.py for a path under /api/.
not_found ==
    Json(404, [error |-> Text("Not Found"),
               message |-> Text("The requested resource was not found"),
               status_code |-> 404])

\* internal_error of app/main.py for a path under /api/.
internal_error ==
    Json(500, [error |-> Text("Internal Server Error"),
               message |-> Text("An internal server error occurred"),
               status_code |-> 500])

\* str(e) of the exception the store raises for a negative LIMIT.
LimitErrorText == "(psycopg2.errors.InvalidRowCountInLimitClause) LIMIT must not be negative"

\* get_players() of app/routes/players.py, given the rows the filtered
\* query yields without a limit: limit is None when the parameter is
\* absent or not an integer, and `if limit:` skips None and 0.
get_players(limit_arg, order, up) ==
    IF ~up THEN Json(500, ErrorBody(StoreErrorText))
    ELSE LET given == limit_arg.t = "str" /\ IntParses(limit_arg.s)
             limit == IF given THEN IntOfText(limit_arg.s) ELSE 0
         IN  IF limit < 0 THEN Json(500, ErrorBody(LimitErrorText))
             ELSE LET rs == IF limit # 0 /\ limit < Len(order)
                            THEN SubSeq(order, 1, limit)
                            ELSE order
                      ds == ListOfDicts(rs)
                  IN  IF IsRaise(ds) THEN Json(500, ErrorBody(ds.msg))
                      ELSE Json(200, ds)

\* search_players_json() of app/routes/players.py: it has no try block, an
\* exception reaches the 500 handler of the application.
search_players_json(name_query, order, up) ==
    IF ~Truthy(name_query)
    THEN Json(400, ErrorBody("Missing 'name' query parameter"))
    ELSE IF ~up THEN internal_error
    ELSE LET ds == ListOfDicts(order)
         IN  IF IsRaise(ds) THEN internal_error ELSE Json(200, ds)

\* The <int:player_id> converter matches digits only.
IntConverterMatches(s) == s # << >> /\ \A k \in 1..Len(s) : IsDigit(s[k])

\* get_player(player_id) of app/routes/players.py.
get_player(table, player_id, up) ==
    IF ~up THEN Json(500, ErrorBody(StoreErrorText))
    ELSE LET found == {p \in table : p.id = player_id}
         IN  IF found = {} THEN Json(404, ErrorBody("Player not found"))
             ELSE LET d == to_dict(CHOOSE p \in found : TRUE)
                  IN  IF IsRaise(d) THEN Json(500, ErrorBody(d.msg)) ELSE Json(200, d)

\* get_players_paginated() of app/routes/players.py, given the rows the
\* filtered query yields.
get_players_paginated(page_arg, per_page_arg, order, up) ==
    IF ~up THEN Json(500, ErrorBody(StoreErrorText))
    ELSE LET page       == ArgInt(page_arg, 1)
             per_page   == ArgInt(per_page_arg, 10)
             pagination == paginate(order, page, per_page)
             ds         == ListOfDicts(pagination.items)
         IN  IF IsRaise(ds) THEN Json(500, ErrorBody(ds.msg))
             ELSE Json(200, [players      |-> ds.v,
                             total_pages  |-> pagination.pages,
                             current_page |-> pagination.page,
                             total_items  |-> pagination.total])

\* Variant: per_page goes to the query as the client sent it.
per_page_unclamped(per_page) == per_page

\* per_page = min(max(per_page, 1), MAX_PER_PAGE)
clamp_per_page(per_page) ==
    LET low == IF per_page > 1 THEN per_page ELSE 1
    IN  IF low < MAX_PER_PAGE THEN low ELSE MAX_PER_PAGE

\* page = max(page, 1)
clamp_page(page) == IF page > 1 THEN page ELSE 1

\* get_players() of app.py, given the rows the filtered query yields; an
\* exception is answered by handle_exception.
app_get_players(page_arg, per_page_arg, order, up) ==
    IF ~up THEN Json(500, ErrorBody("Internal server error"))
    ELSE LET page       == clamp_page(ArgInt(page_arg, DEFAULT_PAGE))
             per_page   == clamp_per_page(ArgInt(per_page_arg, DEFAULT_PER_PAGE))
             pagination == paginate(order, page, per_page)
         IN  Json(200, [players      |-> [k \in 1..Len(pagination.items) |->
                                             app_to_dict(pagination.items[k])],
                        total_pages  |-> pagination.pages,
                        current_page |-> pagination.page,
                        total_items  |-> pagination.total])

\* The applications are up over one of the tables. The handlers keep no
\* state from one request to the next, so a behaviour answers one request.
InitApi ==
    /\ pc = "serving"
    /\ run = 1
    /\ DB_URL = TRUE
    /\ SEASON = <<"7">>
    /\ players \in ApiTables
    /\ id_seq = MaxRows
    /\ clock = MaxRows
    /\ data = Unset
    /\ idx = 0
    /\ rows = << >>
    /\ skipped = 0
    /\ conn = Closed
    /\ outcome = "none"
    /\ exit_code = -1
    /\ error = "none"
    /\ fetch_calls = 0
    /\ store_calls = 0
    /\ request = NoRequest
    /\ response = NoResponse
    /\ before = {}
    /\ prev = << >>
    /\ txns = << >>
    /\ observed = NoRead

\* GET /api/players/<segment>
GetPlayer ==
    /\ pc = "serving"
    /\ request = NoRequest
    /\ \E segment \in IdSegments, up \in BOOLEAN :
          /\ request' = [endpoint |-> "/api/players/<int:player_id>",
                         player_id |-> segment, store_up |-> up]
          /\ response' = IF IntConverterMatches(segment.s)
                         THEN get_player(players, IntOfText(segment.s), up)
                         ELSE not_found
    /\ UNCHANGED <<pc, run, DB_URL, SEASON, players, id_seq, clock, data, idx,
                   rows, skipped, conn, outcome, exit_code, error, fetch_calls,
                   store_calls, before, prev, txns, observed>>

\* GET /api/players/?name=..&limit=..
GetPlayers ==
    /\ pc = "serving"
    /\ request = NoRequest
    /\ \E name \in NameQueries, limit \in LimitTexts, up \in BOOLEAN :
          /\ request' = [endpoint |-> "/api/players/", name |-> name,
                         limit |-> limit, store_up |-> up]
          /\ \E order \in Orders(NameFilter(players, name)) :
                response' = get_players(limit, order, up)
    /\ UNCHANGED <<pc, run, DB_URL, SEASON, players, id_seq, clock, data, idx,
                   rows, skipped, conn, outcome, exit_code, error, fetch_calls,
                   store_calls, before, prev, txns, observed>>

\* GET /api/players/search/json?name=..
SearchPlayersJson ==
    /\ pc = "serving"
    /\ request = NoRequest
    /\ \E name \in NameQueries, up \in BOOLEAN :
          /\ request' = [endpoint |-> "/api/players/search/json",
                         name |-> name, store_up |-> up]
          /\ \E order \in Orders(NameFilter(players, name)) :
                response' = search_players_json(name, order, up)
    /\ UNCHANGED <<pc, run, DB_URL, SEASON, players, id_seq, clock, data, idx,
                   rows, skipped, conn, outcome, exit_code, error, fetch_calls,
                   store_calls, before, prev, txns, observed>>

\* GET /api/players/paginated?page=..&per_page=..&name=..
GetPlayersPaginated ==
    /\ pc = "serving"
    /\ request = NoRequest
    /\ \E page \in PageTexts, per_page \in PerPageTexts, name \in NameQueries,
          up \in BOOLEAN :
          /\ request' = [endpoint |-> "/api/players/paginated", page |-> page,
                         per_page |-> per_page, name |-> name, store_up |-> up]
          /\ \E order \in Orders(NameFilter(players, name)) :
                response' = get_players_paginated(page, per_page, order, up)
    /\ UNCHANGED <<pc, run, DB_URL, SEASON, players, id_seq, clock, data, idx,
                   rows, skipped, conn, outcome, exit_code, error, fetch_calls,
                   store_calls, before, prev, txns, observed>>

\* GET /players?name=..&team=..&nationality=..&page=..&per_page=.. of app.py
AppGetPlayers ==
    /\ pc = "serving"
    /\ request = NoRequest
    /\ \E page \in PageTexts, per_page \in PerPageTexts, name \in NameQueries,
          team \in TeamQueries, nationality \in NationalityQueries,
          up \in BOOLEAN :
          /\ request' = [endpoint |-> "/players", page |-> page,
                         per_page |-> per_page, name |-> name, team |-> team,
                         nationality |-> nationality, store_up |-> up]
          /\ \E order \in Orders(AppFilter(players, name, team, nationality)) :
                response' = app_get_players(page, per_page, order, up)
    /\ UNCHANGED <<pc, run, DB_URL, SEASON, players, id_seq, clock, data, idx,
                   rows, skipped, conn, outcome, exit_code, error, fetch_calls,
                   store_calls, before, prev, txns, observed>>

NextApi ==
    \/ GetPlayer
    \/ GetPlayers
    \/ SearchPlayersJson
    \/ GetPlayersPaginated
    \/ AppGetPlayers

SpecApi == InitApi /\ [][NextApi]_vars

\* ---------------------------------------------------------------- overlapping invocations

\* The two invocations whose transactions overlap, each in its own process
\* with its own connection (engine.begin(), PostgreSQL's READ COMMITTED).
Runs == {1, 2}

\* A second upstream record of player B.
RecB2 == Raw(NameB, TeamX, None, None, Str(<<"1">>), None, Str(<<"E">>))

\* The rows an invocation reaches the transaction with.
ConcBatches ==
    {<<Normalized(RecA), Normalized(RecB)>>,
     <<Normalized(RecB2), Normalized(RecA2)>>,
     <<Normalized(RecA2)>>,
     <<Normalized(RecB2)>>,
     <<Normalized(RecA), Normalized(RecA2)>>}

\* The tables the invocations find.
ConcTables ==
    {{},
     {Inserted(Normalized(RecA2), 1, 1)},
     {Inserted(Normalized(RecB), 1, 1), Inserted(Normalized(RecA), 2, 1)}}

\* The transaction of invocation w has written a version of the row named
\* n and has not ended: it holds the lock of that row.
Holds(w, n) ==
    /\ txns[w].st = "active"
    /\ \E u \in txns[w].writes : u.name = n

\* Invocation w has to wait for invocation v before it can go on.
WaitsFor(w, v) ==
    /\ v # w
    /\ txns[w].st = "active"
    /\ txns[w].k <= Len(txns[w].rows)
    /\ Holds(v, txns[w].rows[txns[w].k].name)

\* The store's deadlock detector finds w in a cycle of waiting transactions.
Deadlocked(w) ==
    \E W \in SUBSET Runs :
        /\ w \in W
        /\ \A x \in W : \E y \in W : WaitsFor(x, y)

InitConc ==
    /\ pc = "overlapping"
    /\ run = 1
    /\ DB_URL = TRUE
    /\ SEASON = <<"7">>
    /\ players \in ConcTables
    /\ id_seq = Cardinality(players)
    /\ clock = 1
    /\ data = Unset
    /\ idx = 0
    /\ rows = << >>
    /\ skipped = 0
    /\ conn = Closed
    /\ outcome = "none"
    /\ exit_code = -1
    /\ error = "none"
    /\ fetch_calls = 0
    /\ store_calls = 0
    /\ request = NoRequest
    /\ response = NoResponse
    /\ before = players
    /\ prev = << >>
    /\ txns \in [Runs -> {[st |-> "ready", rows |-> b, k |-> 1, now |-> 0,
                           writes |-> {}, ended |-> 0, error |-> "none"]
                          : b \in ConcBatches}]
    /\ observed = NoRead

\* with engine.begin() as conn: of invocation w.
ConcBegin(w) ==
    /\ pc = "overlapping"
    /\ txns[w].st = "ready"
    /\ clock' = clock + 1
    /\ txns' = [txns EXCEPT ![w].st = "active", ![w].now = clock']
    /\ UNCHANGED <<pc, run, DB_URL, SEASON, players, id_seq, data, idx, rows,
                   skipped, conn, outcome, exit_code, error, fetch_calls,
                   store_calls, before, prev, request, response, observed>>

\* The transaction of invocation w ends without a commit: its versions of
\* rows are discarded and its locks released.
Aborted(t, exception, now) ==
    [t EXCEPT !.st = "aborted", !.writes = {}, !.ended = now, !.error = exception]

\* Variant: a row is merged without waiting for the transaction that holds
\* its name.
ConcExecuteRowNoWait(w) ==
    /\ pc = "overlapping"
    /\ txns[w].st = "active"
    /\ txns[w].k <= Len(txns[w].rows)
    /\ id_seq' = id_seq + 1
    /\ LET t == txns[w]
           r == t.rows[t.k]
       IN  IF \E u \in t.writes : u.name = r.name
           THEN txns' = [txns EXCEPT ![w] = Aborted(t, "CardinalityViolation", clock)]
           ELSE LET merged == UpsertRow(players, r, id_seq', t.now)
                    version == CHOOSE u \in merged : u.name = r.name /\ u \notin players
                IN  txns' = [txns EXCEPT ![w].writes = t.writes \cup {version},
                                         ![w].k = t.k + 1]
    /\ UNCHANGED <<pc, run, DB_URL, SEASON, players, clock, data, idx, rows,
                   skipped, conn, outcome, exit_code, error, fetch_calls,
                   store_calls, before, prev, request, response, observed>>

\* conn.execute(upsert_stmt) of invocation w merges its next row: it waits
\* while another transaction holds the row of that name, then inserts, or
\* locks and updates the committed row.
ConcExecuteRow(w) ==
    /\ pc = "overlapping"
    /\ txns[w].st = "active"
    /\ txns[w].k <= Len(txns[w].rows)
    /\ \A v \in Runs : ~WaitsFor(w, v)
    /\ id_seq' = id_seq + 1
    /\ LET t == txns[w]
           r == t.rows[t.k]
       IN  IF \E u \in t.writes : u.name = r.name
           THEN txns' = [txns EXCEPT ![w] = Aborted(t, "CardinalityViolation", clock)]
           ELSE LET merged == UpsertRow(players, r, id_seq', t.now)
                    version == CHOOSE u \in merged : u.name = r.name /\ u \notin players
                IN  txns' = [txns EXCEPT ![w].writes = t.writes \cup {version},
                                         ![w].k = t.k + 1]
    /\ UNCHANGED <<pc, run, DB_URL, SEASON, players, clock, data, idx, rows,
                   skipped, conn, outcome, exit_code, error, fetch_calls,
                   store_calls, before, prev, request, response, observed>>

\* The store ends a deadlock by failing the statement of one transaction
\* in the cycle.
ConcDeadlock(w) ==
    /\ pc = "overlapping"
    /\ Deadlocked(w)
    /\ txns' = [txns EXCEPT ![w] = Aborted(txns[w], "DeadlockDetected", clock)]
    /\ UNCHANGED <<pc, run, DB_URL, SEASON, players, id_seq, clock, data, idx,
                   rows, skipped, conn, outcome, exit_code, error, fetch_calls,
                   store_calls, before, prev, request, response, observed>>

\* The store becomes unreachable while the statement of invocation w runs.
ConcExecuteFails(w) ==
    /\ pc = "overlapping"
    /\ txns[w].st = "active"
    /\ txns' = [txns EXCEPT ![w] = Aborted(txns[w], "OperationalError", clock)]
    /\ UNCHANGED <<pc, run, DB_URL, SEASON, players, id_seq, clock, data, idx,
                   rows, skipped, conn, outcome, exit_code, error, fetch_calls,
                   store_calls, before, prev, request, response, observed>>

\* Leaving the with block of invocation w commits: its versions replace
\* the rows they were made from.
ConcCommit(w) ==
    /\ pc = "overlapping"
    /\ txns[w].st = "active"
    /\ txns[w].k > Len(txns[w].rows)
    /\ clock' = clock + 1
    /\ players' = {s \in players : \A u \in txns[w].writes : u.id # s.id}
                      \cup txns[w].writes
    /\ txns' = [txns EXCEPT ![w].st = "committed", ![w].writes = {},
                            ![w].ended = clock']
    /\ UNCHANGED <<pc, run, DB_URL, SEASON, id_seq, data, idx, rows, skipped,
                   conn, outcome, exit_code, error, fetch_calls, store_calls,
                   before, prev, request, response, observed>>

\* The versions of rows that transactions in progress have not committed.
Uncommitted == UNION {txns[w].writes : w \in Runs}

\* Variant: the SELECT returns a row that is being merged with the team of
\* the version in progress.
SelectTorn ==
    /\ pc = "overlapping"
    /\ observed' =
          [rows |-> {IF \E u \in Uncommitted : u.id = s.id
                     THEN [s EXCEPT !.team =
                              (CHOOSE u \in Uncommitted : u.id = s.id).team]
                     ELSE s : s \in players},
           passed |-> Uncommitted]
    /\ UNCHANGED <<pc, run, DB_URL, SEASON, players, id_seq, clock, data, idx,
                   rows, skipped, conn, outcome, exit_code, error, fetch_calls,
                   store_calls, before, prev, request, response, txns>>

\* Player.query.all() of a read request: one SELECT, which returns the
\* committed versions of the rows and passes over the others.
Select ==
    /\ pc = "overlapping"
    /\ observed' = [rows |-> players, passed |-> Uncommitted]
    /\ UNCHANGED <<pc, run, DB_URL, SEASON, players, id_seq, clock, data, idx,
                   rows, skipped, conn, outcome, exit_code, error, fetch_calls,
                   store_calls, before, prev, request, response, txns>>

NextConc ==
    \/ \E w \in Runs : ConcBegin(w)
    \/ \E w \in Runs : ConcExecuteRow(w)
    \/ \E w \in Runs : ConcDeadlock(w)
    \/ \E w \in Runs : ConcExecuteFails(w)
    \/ \E w \in Runs : ConcCommit(w)
    \/ Select

SpecConc == InitConc /\ [][NextConc]_vars

\* ---------------------------------------------------------------- properties

\* The non-identity columns of stored row s are those of normalized row r.
SameFields(s, r) ==
    /\ s.name = r.name
    /\ s.age = r.age
    /\ s.position = r.position
    /\ s.team = r.team
    /\ s.goals = r.goals
    /\ s.assists = r.assists
    /\ s.nationality = r.nationality

\* Table T shows the effect of row r written at time t.
Applied(T, r, t) ==
    \E s \in T : SameFields(s, r) /\ s.last_updated = t

Names(T) == {s.name : s \in T}

Ids(T) == {s.id : s \in T}

RowNames == {rows[k].name : k \in 1..Len(rows)}

\* C1: batch atomicity. In every state the committed table either shows
\* the effect of every row of the batch (only after the run logged its
\* success) or equals the table before the run, wherever the store failed.
C1_BatchAtomicity ==
    IF outcome = "imported"
    THEN \A k \in 1..Len(rows) : Applied(players, rows[k], clock)
    ELSE players = before

\* The store failed after the first of two rows with different names.
C1_Witness ==
    /\ run = 1
    /\ pc = "done"
    /\ error = "OperationalError"
    /\ Len(rows) = 2
    /\ rows[1].name # rows[2].name
    /\ id_seq = 1
    /\ players = before

\* C2: update of an existing player. After a commit, a stored row named by
\* a row of the batch has every non-identity column equal to the incoming
\* value, keeps its id, and carries the time of this merge.
C2_UpdateExisting ==
    outcome = "imported" =>
        \A b \in before : \A k \in 1..Len(rows) :
            rows[k].name = b.name =>
                \E s \in players :
                    /\ s.id = b.id
                    /\ SameFields(s, rows[k])
                    /\ s.last_updated = clock
                    /\ s.last_updated > b.last_updated

\* A stored row was merged with a record that changes none of its fields.
C2_Witness ==
    /\ outcome = "imported"
    /\ \E b \in before : \E k \in 1..Len(rows) :
          /\ SameFields(b, rows[k])
          /\ \E s \in players : s.id = b.id /\ s.last_updated # b.last_updated

\* C3: insert and key uniqueness. In every state no two stored rows share
\* a name or an id and every name is a non-empty string; after a commit
\* each name of the batch that was not stored before has exactly one row,
\* with the provided fields and an id no row had before.
C3_InsertAndUniqueKeys ==
    /\ \A s, u \in players : (s.name = u.name \/ s.id = u.id) => s = u
    /\ \A s \in players : s.name.t = "str" /\ s.name.s # << >>
    /\ outcome = "imported" =>
          /\ \A k \in 1..Len(rows) :
                rows[k].name \notin Names(before) =>
                    /\ Cardinality({s \in players : s.name = rows[k].name}) = 1
                    /\ \E s \in players :
                          /\ SameFields(s, rows[k])
                          /\ s.id \notin Ids(before)
          /\ Cardinality(players) =
                Cardinality(before) + Cardinality(RowNames \ Names(before))

\* A commit inserted a new player into a table that already had a row.
C3_Witness ==
    /\ outcome = "imported"
    /\ before # {}
    /\ RowNames \ Names(before) # {}

\* row s with the freshness marker blanked
Unstamped(s) == [s EXCEPT !.last_updated = 0]

\* C4: idempotent merge. When the batch an invocation commits is the batch
\* the invocation before it committed, the table differs from the one the
\* first commit left only in last_updated of the rows the batch names.
C4_IdempotentMerge ==
    (outcome = "imported" /\ prev = rows) =>
        /\ {Unstamped(s) : s \in players} = {Unstamped(s) : s \in before}
        /\ Cardinality(players) = Cardinality(before)
        /\ \A s \in players : s.name \notin RowNames => s \in before

\* The same batch was committed twice in succession.
C4_Witness ==
    /\ outcome = "imported"
    /\ prev = rows
    /\ players # before

\* rs holds two rows with one name
HasDuplicate(rs) ==
    \E j, k \in 1..Len(rs) : j # k /\ rs[j].name = rs[k].name

\* the last row of rs named n
LastOf(rs, n) ==
    rs[CHOOSE k \in 1..Len(rs) :
          rs[k].name = n /\ \A j \in (k + 1)..Len(rs) : rs[j].name # n]

\* C5: duplicate names inside one batch. Unless the store is unreachable,
\* a run whose rows repeat a name ends with the batch committed and, for
\* every name, the stored row holding the fields of its last occurrence.
C5_DuplicateNamesCommitted ==
    (pc = "done" /\ HasDuplicate(rows) /\ error # "OperationalError") =>
        /\ outcome = "imported"
        /\ \A n \in RowNames :
              \E s \in players : SameFields(s, LastOf(rows, n))

\* The record has no player_name or no team_title, or an empty one.
LacksNameOrTeam(p) ==
    \/ p.player_name \in {None, Str(<< >>)}
    \/ p.team_title \in {None, Str(<< >>)}

\* positions of data the loop has passed
Seen == IF data.t = "list" /\ idx >= 1 THEN 1..(idx - 1) ELSE {}

Rejects == {j \in Seen : LacksNameOrTeam(data.v[j])}

\* C6: rejection of records missing a required field. Of the records the
\* loop has passed, those lacking name or team are counted as skipped and
\* the others, and only they, are in rows; the run goes on to the upsert
\* when a record is left; a commit writes n-k rows for n records fetched
\* and k rejected.
C6_MalformedRejected ==
    /\ skipped = Cardinality(Rejects)
    /\ Len(rows) = Cardinality(Seen) - Cardinality(Rejects)
    /\ \A k \in 1..Len(rows) :
          \E j \in Seen \ Rejects :
              /\ rows[k].name = data.v[j].player_name
              /\ rows[k].team = data.v[j].team_title
    /\ (pc = "done" /\ Seen # Rejects) => outcome \in {"imported", "database_error"}
    /\ outcome = "imported" =>
          /\ Cardinality(Seen) = Len(data.v)
          /\ Cardinality({s \in players : s.last_updated = clock})
                = Len(data.v) - Cardinality(Rejects)

\* A commit of a collection with a rejected record and an accepted one.
C6_Witness ==
    /\ outcome = "imported"
    /\ skipped >= 1
    /\ Len(rows) >= 1

\* What Python's int() gives for the numeric values of the records, and 0
\* for the values it refuses and for a missing value.
Lenient(v) ==
    CASE v = None                      -> 0
      [] v = Str(<<"b", "a", "d">>)    -> 0
      [] v = Str(<<"3">>)              -> 3
      [] v = Str(<<"1">>)              -> 1
      [] v = Str(<<"5">>)              -> 5
      [] v = Str(<<"3", "0">>)         -> 30
      [] v = Str(<<" ", "+", "5">>)    -> 5
      [] v = Str(<<"-", "2">>)         -> 0 - 2
      [] v = Num(4)                    -> 4

\* C7: lenient numeric coercion. After a commit every fetched record with
\* name and team has its row written by this transaction, with age, goals
\* and assists the integer the raw value denotes, or 0 when the value is
\* missing or no integer; A(goals "3"), B(goals "bad") give 3 and 0.
C7_LenientCoercion ==
    outcome = "imported" =>
        /\ \A j \in 1..Len(data.v) :
              ~LacksNameOrTeam(data.v[j]) =>
                  \E s \in players :
                      /\ s.name = data.v[j].player_name
                      /\ s.last_updated = clock
                      /\ s.age = Lenient(data.v[j].age)
                      /\ s.goals = Lenient(data.v[j].goals)
                      /\ s.assists = Lenient(data.v[j].assists)
        /\ data.v = <<RecA, RecB>> =>
              \E a, b \in players :
                  /\ a.name = NameA /\ a.goals = 3
                  /\ b.name = NameB /\ b.goals = 0
                  /\ a.last_updated = b.last_updated

\* The records A(goals "3") and B(goals "bad") were committed.
C7_Witness ==
    /\ outcome = "imported"
    /\ data.v = <<RecA, RecB>>

\* A numeric field of the record holds a text that is no integer.
CoercionFails(p) ==
    \E f \in {"age", "goals", "assists"} : p[f] = Str(<<"b", "a", "d">>)

\* C8 as claimed: strict coercion. The script has no setting that selects
\* a policy, so the strict behaviour is stated of the one there is: a
\* record with a numeric field that fails coercion is rejected and has no
\* row among those handed to the upsert; of A(goals "3"), B(goals "bad")
\* only A is applied and one rejection is reported.
C8_StrictRejects ==
    /\ \A j \in Seen :
          CoercionFails(data.v[j]) =>
              ~\E k \in 1..Len(rows) :
                  /\ rows[k].name = data.v[j].player_name
                  /\ rows[k].team = data.v[j].team_title
    /\ (outcome = "imported" /\ data.v = <<RecA, RecB>>) =>
          /\ Names(players) \ Names(before) \subseteq {NameA}
          /\ skipped = 1

\* C8 as amended: the policy is fixed. A record with name and team is
\* never rejected for a numeric field that fails coercion: once the loop
\* has passed it, rows holds its row with 0 in that field, and the skipped
\* records are not more than those lacking name or team; A(goals "3"),
\* B(goals "bad") are both applied and no rejection is reported.
C8_AlwaysLenient ==
    /\ \A j \in Seen :
          (CoercionFails(data.v[j]) /\ ~LacksNameOrTeam(data.v[j])) =>
              \E k \in 1..Len(rows) :
                  /\ rows[k].name = data.v[j].player_name
                  /\ rows[k].team = data.v[j].team_title
                  /\ \A f \in {"age", "goals", "assists"} :
                        data.v[j][f] = Str(<<"b", "a", "d">>) => rows[k][f] = 0
    /\ skipped <= Cardinality(Rejects)
    /\ (outcome = "imported" /\ data.v = <<RecA, RecB>>) =>
          /\ {NameA, NameB} \subseteq Names(players)
          /\ skipped = 0

\* B(goals "bad") was committed next to A(goals "3").
C8_Witness ==
    /\ outcome = "imported"
    /\ data.v = <<RecA, RecB>>
    /\ \E s \in players : s.name = NameB /\ s.goals = 0 /\ s.last_updated = clock

\* C9: the configuration check precedes all I/O. With a SEASON that is no
\* integer the script is at its start or has ended with the configuration
\* error and status 1, and has issued no upstream call, opened no
\* connection to the store and written nothing.
C9_ConfigCheckFirst ==
    SEASON \in {<<"a", "b", "c">>, << >>} =>
        /\ pc \in {"load", "done"}
        /\ pc = "done" => (outcome = "invalid_season" /\ exit_code = 1)
        /\ fetch_calls = 0
        /\ store_calls = 0
        /\ conn = Closed
        /\ players = before

\* A run with SEASON "abc" ended, over a table an earlier run filled.
C9_Witness ==
    /\ pc = "done"
    /\ SEASON = <<"a", "b", "c">>
    /\ outcome = "invalid_season"
    /\ players # {}

\* C10: empty upstream result. Once the upstream call has returned nothing
\* or an empty list, the run only checks it and ends with the no-data
\* warning and status 0: no record is normalized, no transaction is
\* opened, and the table is the one before the run.
C10_EmptyResult ==
    data \in {None, List(<< >>)} =>
        /\ pc \in {"check_data", "done"}
        /\ pc = "done" => (outcome = "no_data" /\ exit_code = 0 /\ error = "none")
        /\ idx = 0
        /\ rows = << >>
        /\ skipped = 0
        /\ conn = Closed
        /\ store_calls = 1
        /\ players = before

\* A run that fetched [] ended, over a table an earlier run filled.
C10_Witness ==
    /\ pc = "done"
    /\ data = List(<< >>)
    /\ outcome = "no_data"
    /\ players # {}

\* C11: no valid data. While every record of a non-empty fetched list
\* lacks name or team, rows stays empty, no transaction is opened and the
\* table is the one before the run; the run ends with the no-valid-rows
\* warning and status 0.
C11_NoValidData ==
    (data.t = "list" /\ data.v # << >>
        /\ \A j \in 1..Len(data.v) : LacksNameOrTeam(data.v[j])) =>
        /\ pc \in {"check_data", "normalize", "done"}
        /\ pc = "done" => (outcome = "no_valid_rows" /\ exit_code = 0)
        /\ rows = << >>
        /\ conn = Closed
        /\ store_calls = 1
        /\ players = before

\* A run whose records were all rejected ended, over a filled table.
C11_Witness ==
    /\ pc = "done"
    /\ outcome = "no_valid_rows"
    /\ skipped = 2
    /\ players # {}

\* C12: fetch failure without retry. An invocation issues at most one
\* upstream call; when the call raised, the run has ended with the error
\* logged, after that one call, with nothing normalized, no transaction
\* opened and the table as before the run.
C12_FetchFailureNoRetry ==
    /\ fetch_calls <= 1
    /\ pc \in {"check_data", "normalize", "begin", "execute"} => fetch_calls = 1
    /\ error = "ClientError" => outcome = "http_error"
    /\ outcome \in {"http_error", "unexpected_error"} =>
          /\ pc = "done"
          /\ fetch_calls = 1
          /\ data = Unset
          /\ idx = 0
          /\ rows = << >>
          /\ conn = Closed
          /\ store_calls = 1
          /\ players = before

\* A run ended on aiohttp.ClientError, over a filled table.
C12_Witness ==
    /\ pc = "done"
    /\ error = "ClientError"
    /\ fetch_calls = 1
    /\ players # {}

\* C13: failure propagation. A run that ended because the fetch or the
\* upsert failed leaves a non-zero status to its invoker, so that it is
\* not reported like a run that succeeded or found no data.
C13_FailureNonZero ==
    (pc = "done" /\ outcome \in {"http_error", "unexpected_error", "database_error"}) =>
        exit_code # 0

\* C14: no deletion and no collateral change. Every row the table held
\* when the invocation started is still there under its id and name, and
\* a row no row of the batch names is there unchanged, last_updated and
\* id included.
C14_NoDeletionNoCollateral ==
    \A b \in before :
        /\ \E s \in players : s.id = b.id /\ s.name = b.name
        /\ b.name \notin RowNames => b \in players

\* A commit that did not name a stored row.
C14_Witness ==
    /\ outcome = "imported"
    /\ players # before
    /\ \E b \in before : b.name \notin RowNames

\* C15: freshness marker. last_updated of a row never goes back; it moves
\* only when the invocation commits a batch naming the row; after a commit
\* every row the batch names, new or old, carries the time of the merge.
C15_FreshnessMarker ==
    /\ \A b \in before : \A s \in players :
          s.id = b.id =>
              /\ s.last_updated >= b.last_updated
              /\ s.last_updated # b.last_updated =>
                    (outcome = "imported" /\ s.name \in RowNames)
    /\ \A s \in players :
          s.id \notin Ids(before) => (outcome = "imported" /\ s.name \in RowNames)
    /\ outcome = "imported" =>
          \A s \in players : s.name \in RowNames => s.last_updated = clock

\* One commit advanced the marker of a stored row and created another row.
C15_Witness ==
    /\ outcome = "imported"
    /\ \E b \in before : \E s \in players :
          s.id = b.id /\ s.last_updated > b.last_updated
    /\ \E s \in players : s.id \notin Ids(before) /\ s.last_updated = clock

\* C16 as claimed: run report counts. A run that succeeded reports the
\* four totals fetched, normalized, rejected and applied.
C16_FourTotalsReported ==
    outcome = "imported" =>
        {"fetched", "normalized", "rejected", "applied"} \subseteq DOMAIN SuccessLine

\* C16 as amended: a run that succeeded reports one total, the number of
\* normalized rows, which is the number of rows the committed transaction
\* wrote and the number of fetched records less the skip warnings logged.
C16_OneTotalReported ==
    outcome = "imported" =>
        /\ DOMAIN SuccessLine = {"imported"}
        /\ SuccessLine.imported = Cardinality({s \in players : s.last_updated = clock})
        /\ SuccessLine.imported = Len(data.v) - skipped

\* A run that fetched more records than it imported succeeded.
C16_Witness ==
    /\ outcome = "imported"
    /\ SuccessLine.imported = 1
    /\ Len(data.v) = 2

\* The request went to the paginated list of either application.
Paginated == request.endpoint \in {"/api/players/paginated", "/players"}

\* page and per_page as the handlers read them from the query string.
RequestedPage == ArgInt(request.page, DEFAULT_PAGE)

RequestedPerPage == ArgInt(request.per_page, DEFAULT_PER_PAGE)

\* n brought into [1, MAX_PER_PAGE].
Within(n) == IF n < 1 THEN 1 ELSE IF n > MAX_PER_PAGE THEN MAX_PER_PAGE ELSE n

Serializes(p) == ~IsRaise(to_dict(p))

\* C17: pagination clamping. Every request to a paginated list endpoint,
\* served with the store up and over rows that all serialize, is answered
\* with a page whose current_page is at least 1 and that holds at most as
\* many players as per_page brought into [1, 100].
C17_PaginationClamped ==
    (Paginated /\ request.store_up /\ \A p \in players : Serializes(p)) =>
        /\ response.status = 200
        /\ response.body.current_page >= 1
        /\ Len(response.body.players) <= Within(RequestedPerPage)

\* C18 as claimed: invalid pagination bounds are an error. A request to a
\* paginated list endpoint with per_page below 1 or above 100 is answered
\* with 400 and an error body.
C18_InvalidBoundsRejected ==
    (Paginated /\ request.store_up /\ RequestedPerPage \notin 1..MAX_PER_PAGE) =>
        /\ response.status = 400
        /\ "error" \in DOMAIN response.body

\* C18 as amended: a request to a paginated list endpoint with per_page
\* below 1 or above 100 is never answered with 400. /players answers it
\* with a page of at most per_page brought into [1, 100] players, counted
\* in pages of that size; /api/players/paginated answers it with a page,
\* or with 500 and an error body when the store or the serialization of a
\* row of the page fails.
C18_InvalidBoundsAnswered ==
    (Paginated /\ RequestedPerPage \notin 1..MAX_PER_PAGE) =>
        /\ response.status \in {200, 500}
        /\ response.status = 500 =>
              /\ DOMAIN response.body = {"error"}
              /\ \/ ~request.store_up
                 \/ /\ request.endpoint = "/api/players/paginated"
                    /\ \E p \in players : ~Serializes(p)
        /\ response.status = 200 =>
              DOMAIN response.body =
                  {"players", "total_pages", "current_page", "total_items"}
        /\ (request.endpoint = "/players" /\ request.store_up) =>
              /\ response.status = 200
              /\ Len(response.body.players) <= Within(RequestedPerPage)
              /\ response.body.total_items =
                    Cardinality(AppFilter(players, request.name, request.team,
                                          request.nationality))
              /\ response.body.total_pages * Within(RequestedPerPage)
                    >= response.body.total_items
              /\ (response.body.total_pages - 1) * Within(RequestedPerPage)
                    < response.body.total_items \/ response.body.total_items = 0

\* /players answered per_page=0 with a page of one of several rows.
C18_Witness ==
    /\ request.endpoint = "/players"
    /\ request.per_page = Str(<<"0">>)
    /\ response.status = 200
    /\ Len(response.body.players) = 1
    /\ response.body.total_items = 3
    /\ response.body.total_pages = 3

\* C19: pagination metadata. For a request to /api/players/paginated with
\* per_page P in [1, 100] and a page of at least 1, served with the store
\* up, the response is a page with total_items the number of rows matching
\* the name filter, total_pages = ceil(total_items / P), current_page the
\* requested page and at most P players.
C19_PaginationMetadata ==
    (/\ request.endpoint = "/api/players/paginated"
     /\ request.store_up
     /\ RequestedPerPage \in 1..MAX_PER_PAGE
     /\ RequestedPage >= 1) =>
        /\ response.status = 200
        /\ response.body.total_items =
              Cardinality(NameFilter(players, request.name))
        /\ response.body.total_pages =
              (response.body.total_items + RequestedPerPage - 1) \div RequestedPerPage
        /\ response.body.current_page = RequestedPage
        /\ Len(response.body.players) <= RequestedPerPage

\* C20: lookup by id. A request to /api/players/<id>, served with the
\* store up, is answered with 200 and the serialized row whose ID is the
\* requested id when the table holds such a row, and with 404 and an error
\* body when it holds none.
C20_LookupById ==
    (request.endpoint = "/api/players/<int:player_id>" /\ request.store_up) =>
        LET found == {p \in players : IntParses(request.player_id.s)
                                       /\ p.id = IntOfText(request.player_id.s)}
        IN  IF found = {}
            THEN /\ response.status = 404
                 /\ "error" \in DOMAIN response.body
            ELSE /\ response.status = 200
                 /\ response.body.ID = IntOfText(request.player_id.s)
                 /\ \E p \in found : response.body = to_dict(p)

\* The text with every character case-folded.
Folded(s) == [k \in 1..Len(s) |-> lower(s[k])]

\* q occurs in s as a case-insensitive substring.
ContainsText(s, q) ==
    \E i \in 1..(Len(s) - Len(q) + 1) :
        SubSeq(Folded(s), i, i + Len(q) - 1) = Folded(q)

\* The players of a 200 response of a list endpoint.
Returned ==
    IF request.endpoint \in {"/api/players/paginated", "/players"}
    THEN response.body.players
    ELSE response.body.v

\* C21: name filter soundness and completeness. A request with a
\* non-empty name q to the list, search/json or paginated endpoint, served
\* with the store up over rows that all serialize and with no limit or
\* page size that cuts the result, is answered with 200 and exactly the
\* stored players whose name contains q case-insensitively.
C21_NameFilterExact ==
    (/\ request.endpoint \in {"/api/players/", "/api/players/search/json",
                              "/api/players/paginated"}
     /\ request.store_up
     /\ Truthy(request.name)
     /\ \A p \in players : Serializes(p)
     /\ request.endpoint = "/api/players/" => request.limit = None
     /\ request.endpoint = "/api/players/paginated" =>
            (request.page = None /\ request.per_page = None)) =>
        /\ response.status = 200
        /\ {Returned[k].ID : k \in 1..Len(Returned)} =
              {p.id : p \in {r \in players : ContainsText(r.name.s, request.name.s)}}

\* C22: limit bound. A request to the list endpoint with an integer limit
\* L >= 0, served with the store up over rows that all serialize, is
\* answered with a list of at most L players.
C22_LimitBound ==
    (/\ request.endpoint = "/api/players/"
     /\ request.store_up
     /\ \A p \in players : Serializes(p)
     /\ request.limit.t = "str"
     /\ IntParses(request.limit.s)
     /\ IntOfText(request.limit.s) >= 0) =>
        /\ response.status = 200
        /\ Len(response.body.v) <= IntOfText(request.limit.s)

\* The texts of the exceptions the store and the serialization of a row
\* of the table raise.
InternalTexts ==
    {StoreErrorText, LimitErrorText}
        \cup {to_dict(p).msg : p \in {r \in players : ~Serializes(r)}}

\* C23: no internal error text in responses. A 500 of the list, by-id or
\* paginated endpoint has an error body that is not the text of the
\* internal exception.
C23_NoInternalText ==
    (/\ request.endpoint \in {"/api/players/", "/api/players/<int:player_id>",
                              "/api/players/paginated"}
     /\ response.status = 500) =>
        /\ "error" \in DOMAIN response.body
        /\ response.body.error.txt \notin InternalTexts

\* The phase of the run the script is in.
Phase ==
    CASE pc \in {"load", "create_engine", "create_all"} -> 0
      [] pc \in {"fetch", "check_data"}                -> 1
      [] pc = "normalize"                              -> 2
      [] pc \in {"begin", "execute"}                   -> 3
      [] pc = "done"                                   -> 4

\* The outcomes of a run that entered fetch_and_store: Succeeded, NoData,
\* NoValidData, FetchFailure (either log line), StorageFailure.
TerminalOutcomes ==
    {"imported", "no_data", "no_valid_rows", "http_error", "unexpected_error",
     "database_error"}

\* C24: phase ordering of one run. Within an invocation the phase never
\* goes back and no phase is entered but from the one before it;
\* normalizing starts only after the one fetch returned a non-empty list;
\* the transaction is opened only after every fetched record was
\* normalized or rejected; a run that entered fetch_and_store ends with
\* one of the terminal outcomes, which nothing changes afterwards.
C24_PhaseOrdering ==
    /\ [](/\ pc = "normalize" =>
                (fetch_calls = 1 /\ data.t = "list" /\ data.v # << >>)
          /\ pc \in {"begin", "execute"} =>
                /\ idx = Len(data.v) + 1
                /\ Len(rows) + skipped = Len(data.v)
          /\ pc = "done" <=> outcome # "none"
          /\ (pc = "done" /\ fetch_calls > 0) => outcome \in TerminalOutcomes)
    /\ [][\/ run' # run
          \/ /\ run' = run
             /\ Phase' \in {Phase, Phase + 1, 4}
             /\ Phase = 4 => (Phase' = 4 /\ outcome' = outcome)]_vars

\* A run went through every phase and succeeded.
C24_Witness ==
    /\ pc = "done"
    /\ outcome = "imported"
    /\ skipped = 1
    /\ Len(rows) = 1

\* The invocations whose committed batch names n.
Committers(n) ==
    {w \in Runs : /\ txns[w].st = "committed"
                  /\ \E k \in 1..Len(txns[w].rows) : txns[w].rows[k].name = n}

\* The one of them that committed last.
LastCommitter(n) ==
    CHOOSE w \in Committers(n) : \A v \in Committers(n) : txns[v].ended <= txns[w].ended

\* The transactions of invocations v and w overlapped.
Overlapped(v, w) ==
    /\ v # w
    /\ txns[v].ended > 0
    /\ txns[w].ended > 0
    /\ txns[v].now < txns[w].ended
    /\ txns[w].now < txns[v].ended

\* C25: overlapping runs. In every interleaving the table has one row per
\* name; a name no committed batch names has the row the invocations
\* found (nothing of an aborted transaction stays); a name a committed
\* batch names has every non-identity field, and the stamp, from the
\* record of the invocation that committed last.
C25_OverlappingRuns ==
    /\ \A s, u \in players : s.name = u.name => s = u
    /\ \A n \in {NameA, NameB} :
          LET here == {s \in players : s.name = n}
          IN  IF Committers(n) = {}
              THEN here = {b \in before : b.name = n}
              ELSE LET t == txns[LastCommitter(n)]
                   IN  /\ here # {}
                       /\ \A s \in here :
                             /\ s.last_updated = t.now
                             /\ \E k \in 1..Len(t.rows) : SameFields(s, t.rows[k])

\* Two overlapping transactions with different records of both players
\* committed.
C25_Witness ==
    /\ Overlapped(1, 2)
    /\ txns[1].st = "committed"
    /\ txns[2].st = "committed"
    /\ txns[1].rows = <<Normalized(RecA), Normalized(RecB)>>
    /\ txns[2].rows = <<Normalized(RecB2), Normalized(RecA2)>>
    /\ before # {}

\* C26: reader isolation. Every row a SELECT returns is a row the
\* invocations found or the whole version a committed transaction made of
\* one record: no row has fields of two versions.
C26_ReaderIsolation ==
    \A o \in observed.rows :
        \/ o \in before
        \/ \E w \in Runs :
              /\ txns[w].st = "committed"
              /\ o.last_updated = txns[w].now
              /\ \E k \in 1..Len(txns[w].rows) : SameFields(o, txns[w].rows[k])

\* A SELECT returned the stored version of a row while a transaction held
\* a different version of it.
C26_Witness ==
    \E o \in observed.rows : \E u \in observed.passed :
        /\ o.id = u.id
        /\ o.team # u.team
        /\ o.goals # u.goals

\* C27: non-negative counters. Every stored goals, assists and age is a
\* non-negative integer.
C27_NonNegativeCounters ==
    \A s \in players : s.goals >= 0 /\ s.assists >= 0 /\ s.age >= 0

\* The full name of a position code, as the specification lists them.
FullName(code) ==
    CASE code = <<"G", "K">> -> "Goalkeeper"
      [] code = <<"D">>      -> "Defender"
      [] code = <<"M">>      -> "Midfielder"
      [] code = <<"F">>      -> "Forward"
      [] code = <<"S">>      -> "Substitute"
      [] OTHER               -> "?"

\* C28: serialized required fields. For a table of rows the pipeline can
\* store (name and team not empty), the by-id endpoint, served with the
\* store up, answers a stored id with 200 and ID, Name, Position and Club
\* not empty; Position is "Unknown" for a null or empty stored position
\* and the " / "-joined full names of known codes; the list endpoint does
\* not fail either.
C28_SerializedRequiredFields ==
    (/\ request # NoRequest
     /\ request.store_up
     /\ \A p \in players : Truthy(p.name) /\ Truthy(p.team)) =>
        /\ (request.endpoint = "/api/players/<int:player_id>"
            /\ IntConverterMatches(request.player_id.s)) =>
              \A p \in players :
                  p.id = IntOfText(request.player_id.s) =>
                      /\ response.status = 200
                      /\ response.body.ID = p.id
                      /\ Truthy(response.body.Name)
                      /\ Truthy(response.body.Club)
                      /\ response.body.Position.txt # ""
                      /\ ~Truthy(p.position) =>
                            response.body.Position.txt = "Unknown"
                      /\ (/\ Truthy(p.position)
                          /\ \A k \in 1..Len(split(p.position.s)) :
                                FullName(split(p.position.s)[k]) # "?") =>
                            response.body.Position.txt =
                                join(" / ", [k \in 1..Len(split(p.position.s)) |->
                                                FullName(split(p.position.s)[k])])
        /\ (request.endpoint = "/api/players/" /\ request.limit = None) =>
              response.status = 200

\* C29: absent optional fields overwrite stored values. Every normalized
\* row has all seven columns, and after a commit the row of a record that
\* omits position or nationality holds null there, and 0 in a numeric
\* column the record omits, whatever the table held before.
C29_AbsentFieldsOverwrite ==
    /\ \A k \in 1..Len(rows) :
          DOMAIN rows[k] =
              {"name", "age", "position", "team", "goals", "assists", "nationality"}
    /\ outcome = "imported" =>
          \A j \in 1..Len(data.v) :
              LET p == data.v[j]
              IN  ~LacksNameOrTeam(p) =>
                      \A s \in players :
                          s.name = p.player_name =>
                              /\ p.position = None => s.position = None
                              /\ p.nationality = None => s.nationality = None
                              /\ p.age = None => s.age = 0
                              /\ p.goals = None => s.goals = 0
                              /\ p.assists = None => s.assists = 0

\* A commit replaced a stored position by null and a stored assists count
\* by 0.
C29_Witness ==
    /\ outcome = "imported"
    /\ \E b \in before : \E s \in players :
          /\ s.id = b.id
          /\ b.position # None
          /\ s.position = None
          /\ b.assists # 0
          /\ s.assists = 0

\* C30: run termination. Every invocation reaches the end of the script;
\* a run that entered fetch_and_store ends with status 0, whatever was
\* raised, and with the transaction closed: committed after the success
\* line, rolled back to the table the invocation found otherwise.
C30_RunTerminates ==
    /\ [](pc = "done" =>
            /\ conn = Closed
            /\ fetch_calls > 0 => exit_code = 0
            /\ outcome # "imported" => players = before)
    /\ (pc # "done") ~> (pc = "done")

\* A run whose statement failed returned after the rollback.
C30_Witness ==
    /\ pc = "done"
    /\ outcome = "database_error"
    /\ error = "OperationalError"
    /\ store_calls = 2
    /\ exit_code = 0
    /\ conn = Closed

====
